---- MODULE Spec2Model ----
(***************************************************************************)
(* A model of nipype/interfaces/spm.py: the recursive job serializer       *)
(* (generate_job, make_mfile, make_job), the frame enumerator              *)
(* (scans_for_fname, scans_for_fnames) and the per-operation option        *)
(* normalizers and job assemblers (Realign, Coregister, Normalize,         *)
(* Smooth: _populate_inputs, _parseinputs, _compile_command).              *)
(*                                                                         *)
(* Python values are records [kind, val]:                                  *)
(*   "none"    val = 0                                                     *)
(*   "bool"    val \in BOOLEAN                                             *)
(*   "int"     val \in Nat                                                 *)
(*   "float"   val \in Nat        (the whole-valued float val.0)           *)
(*   "str"     val = sequence of character tokens                          *)
(*   "list"    val = sequence of values                                    *)
(*   "dict"    val = sequence of <<key, value>> pairs, keys distinct, in   *)
(*             the order the keys were inserted                            *)
(*   "ndarray" val = sequence of values (the items along the first axis)   *)
(* Text (a Python str being built) is a sequence of tokens; a token is a   *)
(* TLA+ string holding one or more characters that always occur together.  *)
(***************************************************************************)
EXTENDS Integers, Sequences, FiniteSets, TLC

VARIABLES
    cls,       \* the class of the operation instance (Realign, ...)
    inputs,    \* self.inputs: the Bunch of options of the instance
    shape,     \* the volumes on disk: file name -> img.get_shape()
    prefix,    \* generate_job's argument prefix
    contents,  \* generate_job's argument contents
    fname,     \* scans_for_fname's argument
    ret        \* what the last call returned or raised

vars == <<cls, inputs, shape, prefix, contents, fname, ret>>

----------------------------------------------------------------------------
(* Bounds of the model *)

\* longest list, and most keys of a dict, drawn as generate_job's contents
MaxLen == 2
\* most frames along the 4th axis of a drawn volume
MaxFrames == 3
\* most options the user assigns before calling the operation
MaxSet == 3

----------------------------------------------------------------------------
(* Python values *)

None == [kind |-> "none", val |-> 0]
PyBool(b) == [kind |-> "bool", val |-> b]
PyInt(n) == [kind |-> "int", val |-> n]
PyFloat(n) == [kind |-> "float", val |-> n]
PyString(s) == [kind |-> "str", val |-> s]
PyList(s) == [kind |-> "list", val |-> s]
PyDict(s) == [kind |-> "dict", val |-> s]
PyArray(s) == [kind |-> "ndarray", val |-> s]

RECURSIVE Flatten(_)
\* the concatenation of a sequence of texts
Flatten(ss) ==
    IF ss = <<>> THEN <<>> ELSE Head(ss) \o Flatten(Tail(ss))

RECURSIVE Perms(_)
\* every sequence that lists each element of the finite set S once
Perms(S) ==
    IF S = {} THEN {<<>>}
    ELSE UNION {{<<x>> \o p : p \in Perms(S \ {x})} : x \in S}

Range(s) == {s[i] : i \in DOMAIN s}

\* dict.keys(), in insertion order
DictKeys(d) == [i \in DOMAIN d.val |-> d.val[i][1]]

HasKey(d, k) == \E i \in DOMAIN d.val : d.val[i][1] = k

\* d[k]
DictGet(d, k) == d.val[CHOOSE i \in DOMAIN d.val : d.val[i][1] = k][2]

\* d[k] = v: an existing key keeps its place, a new key is inserted last
DictSet(d, k, v) ==
    IF HasKey(d, k)
    THEN PyDict([i \in DOMAIN d.val |->
                  IF d.val[i][1] = k THEN <<k, v>> ELSE d.val[i]])
    ELSE PyDict(Append(d.val, <<k, v>>))

RECURSIVE DictUpdate(_, _)
\* d.update(e)
DictUpdate(d, e) ==
    IF e.val = <<>> THEN d
    ELSE DictUpdate(DictSet(d, Head(e.val)[1], Head(e.val)[2]), PyDict(Tail(e.val)))

Digit == <<"0", "1", "2", "3", "4", "5", "6", "7", "8", "9">>

RECURSIVE DecStr(_)
\* "%d" % n
DecStr(n) ==
    IF n < 10 THEN <<Digit[n + 1]>>
    ELSE DecStr(n \div 10) \o <<Digit[(n % 10) + 1]>>

RECURSIVE str(_)
\* str(v), which is also what "%s" % v formats
str(v) ==
    CASE v.kind = "str" -> v.val
      [] v.kind = "int" -> DecStr(v.val)
      [] v.kind = "float" -> DecStr(v.val) \o <<".", "0">>
      [] v.kind = "bool" -> IF v.val THEN <<"True">> ELSE <<"False">>
      [] v.kind = "none" -> <<"None">>
      [] v.kind = "ndarray" ->
            <<"[">> \o Flatten([i \in DOMAIN v.val |->
                          (IF i > 1 THEN <<" ">> ELSE <<>>) \o str(v.val[i])])
                    \o <<"]">>
      [] OTHER -> <<"<", v.kind, ">">>

----------------------------------------------------------------------------
(* The job serializer *)

RECURSIVE IterViews(_)
RECURSIVE ViewsOfSeq(_)
\* dict.items(): a Python 2 dict iterates in the order of its hash table,
\* which is some order of its keys and not the order of their insertion.
\* An iteration view of a value is the value with the pairs of every dict in
\* it listed in the order one run iterates them; IterViews(v) is every
\* view a run can see.
IterViews(v) ==
    CASE v.kind = "dict" ->
            UNION {{PyDict([i \in DOMAIN p |-> <<v.val[p[i]][1], w[i]>>]) :
                        w \in ViewsOfSeq([i \in DOMAIN p |-> v.val[p[i]][2]])} :
                   p \in Perms(DOMAIN v.val)}
      [] v.kind = "list" -> {PyList(w) : w \in ViewsOfSeq(v.val)}
      [] OTHER -> {v}

ViewsOfSeq(vs) ==
    IF vs = <<>> THEN {<<>>}
    ELSE {<<h>> \o t : h \in IterViews(Head(vs)), t \in ViewsOfSeq(Tail(vs))}

\* a slip in IndexPrefix: the 0-based index of enumerate() is emitted
IndexPrefix_zero_based(pfx, i) ==
    pfx \o <<"(">> \o DecStr(i) \o <<")">>

\* newprefix = "%s(%d)" % (prefix,i+1), i the 0-based index of enumerate()
IndexPrefix(pfx, i) ==
    pfx \o <<"(">> \o DecStr(i + 1) \o <<")">>

\* a slip in KeyPrefix: the key is appended without its dot
KeyPrefix_no_dot(pfx, key) ==
    pfx \o <<key>>

\* newprefix = "%s.%s" % (prefix,key)
KeyPrefix(pfx, key) ==
    pfx \o <<".", key>>

\* a slip in ArrayAssign: every item line is closed, as the last line is
ArrayAssign_closed_items(pfx, c) ==
    pfx \o <<" = ", "{", "...", "\n">>
        \o Flatten([i \in DOMAIN c.val |->
                      <<"'">> \o str(c.val[i]) \o <<"'", ";", "\n">>])
        \o <<"}", ";", "\n">>

\* the numpy array branch: "%s = {...\n", then '\'%s\';...\n' for each item,
\* then '};\n'
ArrayAssign(pfx, c) ==
    pfx \o <<" = ", "{", "...", "\n">>
        \o Flatten([i \in DOMAIN c.val |->
                      <<"'">> \o str(c.val[i]) \o <<"'", ";", "...", "\n">>])
        \o <<"}", ";", "\n">>

\* a slip in StrAssign: the value is not quoted
StrAssign_unquoted(pfx, c) ==
    pfx \o <<" = ">> \o c.val \o <<";", "\n">>

\* "%s = '%s';\n" % (prefix,contents)
StrAssign(pfx, c) ==
    pfx \o <<" = ", "'">> \o c.val \o <<"'", ";", "\n">>

\* "%s = %s;\n" % (prefix,str(contents))
ScalarAssign(pfx, c) ==
    pfx \o <<" = ">> \o str(c) \o <<";", "\n">>

RECURSIVE generate_job(_, _)
\* generate_job(prefix, contents); c is the iteration view of contents, so
\* that c.val of a dict is contents.items()
generate_job(pfx, c) ==
    CASE c.kind = "list" ->
            Flatten([i \in DOMAIN c.val |->
                        generate_job(IndexPrefix(pfx, i - 1), c.val[i])])
      [] c.kind = "dict" ->
            Flatten([i \in DOMAIN c.val |->
                        generate_job(KeyPrefix(pfx, c.val[i][1]), c.val[i][2])])
      [] c.kind = "ndarray" -> ArrayAssign(pfx, c)
      [] c.kind = "str" -> StrAssign(pfx, c)
      [] OTHER -> ScalarAssign(pfx, c)

----------------------------------------------------------------------------
(* The serializer on its own: generate_job applied to drawn contents *)

NoCall == [op |-> "none"]

\* every sequence over S of length at most n
SeqsUpTo(S, n) == UNION {[1..k -> S] : k \in 0..n}

\* the sequences of SeqsUpTo(S, n) that repeat no element
DistinctSeqs(S, n) ==
    {s \in SeqsUpTo(S, n) : \A i, j \in DOMAIN s : s[i] = s[j] => i = j}

\* the dicts whose keys are from K and whose values are from V
DictsOver(K, V, n) ==
    UNION {{PyDict([i \in DOMAIN ks |-> <<ks[i], vs[i]>>]) : vs \in [DOMAIN ks -> V]} :
           ks \in DistinctSeqs(K, n)}

GenKeys == {"eoptions", "roptions", "fwhm"}

GenFrames == <<PyString(<<"a.nii", ",", "1">>), PyString(<<"a.nii", ",", "2">>),
               PyString(<<"a.nii", ",", "3">>)>>

GenLeaves ==
    {PyString(<<"m", "i">>), PyInt(1), PyFloat(5), PyBool(TRUE)}
        \cup {PyArray(SubSeq(GenFrames, 1, n)) : n \in {0, MaxLen}}

GenInner ==
    {PyInt(1), PyString(<<"m", "i">>), PyDict(<<>>), PyList(<<>>),
     PyDict(<< <<"fwhm", PyFloat(5)>> >>), PyList(<<PyInt(0)>>),
     PyArray(SubSeq(GenFrames, 1, 1))}

GenContents ==
    GenLeaves
        \cup {PyList(s) : s \in SeqsUpTo(GenLeaves, MaxLen)}
        \cup DictsOver(GenKeys, GenLeaves, MaxLen)
        \cup {PyList(s) : s \in SeqsUpTo(GenInner, MaxLen)}
        \cup DictsOver(GenKeys, GenInner, MaxLen)

GenPrefixes ==
    {<<"jobs">>, <<"jobs{1}", ".", "spatial{1}", ".", "realign{1}">>}

\* the state of the other specifications' variables, which this one leaves
IdleInstance ==
    /\ cls = "none"
    /\ inputs = <<>>
    /\ shape = <<>>
    /\ fname = None

IdleSerializer ==
    /\ prefix = <<>>
    /\ contents = None

GenInit ==
    /\ IdleInstance
    /\ prefix \in GenPrefixes
    /\ contents \in GenContents
    /\ ret = NoCall

\* jobstring = generate_job(prefix, contents)
Generate ==
    /\ ret.op = "none"
    /\ \E view \in IterViews(contents) :
          ret' = [op |-> "generate_job", view |-> view,
                  value |-> generate_job(prefix, view)]
    /\ UNCHANGED <<cls, inputs, shape, prefix, contents, fname>>

GenNext == Generate

SpecGen == GenInit /\ [][GenNext]_vars

----------------------------------------------------------------------------
(* The frame enumerator *)

\* a call that returned v
Returned(v) == [exc |-> "", value |-> v]

\* a call that ended by raising the exception e
Raised(e) == [exc |-> e, value |-> None]

\* a slip in FrameRef: the 0-based frame number is formatted
FrameRef_zero_based(f, sno) ==
    PyString(f.val \o <<",">> \o DecStr(sno))

\* '%s,%d' % (fname, sno+1), sno the 0-based frame number of range(n_scans)
FrameRef(f, sno) ==
    PyString(f.val \o <<",">> \o DecStr(sno + 1))

\* scans_for_fname(fname) with the volumes fs on disk.  load() raises for a
\* file that is not there.  The branch of a 3-dimensional volume reads
\* n_scans, a local that is assigned only in the other branch: it raises
\* UnboundLocalError.  The other branch reads get_shape()[3], which raises
\* IndexError for a shape of fewer than 4 dimensions; scans is an array of
\* shape (n_scans, 1), a row of one frame reference per frame.
scans_for_fname(fs, f) ==
    IF f \notin DOMAIN fs THEN Raised("IOError")
    ELSE IF Len(fs[f]) = 3 THEN Raised("UnboundLocalError")
    ELSE IF Len(fs[f]) < 4 THEN Raised("IndexError")
    ELSE Returned(PyArray([i \in 1..fs[f][4] |-> PyArray(<<FrameRef(f, i - 1)>>)]))

RECURSIVE SessionScans(_, _)
\* the loop of scans_for_fnames: the scans of every session in turn, up to
\* the first that raises
SessionScans(fs, fnames) ==
    IF fnames = <<>> THEN Returned(<<>>)
    ELSE LET one == scans_for_fname(fs, Head(fnames))
             rest == SessionScans(fs, Tail(fnames))
         IN IF one.exc # "" THEN one
            ELSE IF rest.exc # "" THEN rest
            ELSE Returned(<<one.value>> \o rest.value)

\* scans_for_fnames(fnames): an array of shape (1, n_sess), its one row
\* holding the scans of each session
scans_for_fnames(fs, fnames) ==
    LET each == SessionScans(fs, fnames.val)
    IN IF each.exc # "" THEN each
       ELSE Returned(PyArray(<<PyArray(each.value)>>))

----------------------------------------------------------------------------
(* The frame enumerator on its own, on drawn volumes *)

\* the file names that are drawn
FileNames == {PyString(<<"a", ".nii">>), PyString(<<"d", "/", "b", ".nii">>)}

\* a file name with no file
MissingFile == PyString(<<"c", ".nii">>)

\* the shapes of the drawn volumes: 2 to 5 dimensions
Shapes ==
    {<<2, 2>>, <<2, 2, 2>>, <<2, 2, 2, 1, 2>>}
        \cup {<<2, 2, 2, n>> : n \in 1..MaxFrames}

ScansInit ==
    /\ cls = "none"
    /\ inputs = <<>>
    /\ IdleSerializer
    /\ shape \in [FileNames -> Shapes]
    /\ fname \in FileNames \cup {MissingFile}
                   \cup {PyList(s) : s \in SeqsUpTo(FileNames, 2) \ {<<>>}}
    /\ ret = NoCall

\* scans = scans_for_fname(fname)
ScansForFname ==
    /\ ret.op = "none"
    /\ fname.kind = "str"
    /\ ret' = [op |-> "scans_for_fname"] @@ scans_for_fname(shape, fname)
    /\ UNCHANGED <<cls, inputs, shape, prefix, contents, fname>>

\* sess_scans = scans_for_fnames(fname), fname a list of file names
ScansForFnames ==
    /\ ret.op = "none"
    /\ fname.kind = "list"
    /\ ret' = [op |-> "scans_for_fnames"] @@ scans_for_fnames(shape, fname)
    /\ UNCHANGED <<cls, inputs, shape, prefix, contents, fname>>

ScansNext == ScansForFname \/ ScansForFnames

SpecScans == ScansInit /\ [][ScansNext]_vars

----------------------------------------------------------------------------
(* The option normalizers: _populate_inputs and _parseinputs *)

Classes == {"Realign", "Coregister", "Normalize", "Smooth"}

\* the options _populate_inputs declares, in the order it names them
DeclaredOptions(c) ==
    CASE c = "Realign" ->
            <<"infile", "write", "quality", "fwhm", "separation",
              "register_to_mean", "weight_img", "interp", "wrap",
              "write_which", "write_interp", "write_wrap", "write_mask",
              "flags">>
      [] c = "Coregister" ->
            <<"target", "source", "infile", "write", "cost_function",
              "separation", "tolerance", "fwhm", "write_interp",
              "write_wrap", "write_mask", "flags">>
      [] c = "Normalize" ->
            <<"template", "source", "infile", "write", "source_weight",
              "template_weight", "source_image_smoothing",
              "template_image_smoothing", "affine_regularization_type",
              "DCT_period_cutoff", "nonlinear_iterations",
              "nonlinear_regularization", "write_preserve",
              "write_bounding_box", "write_voxel_sizes", "write_interp",
              "write_wrap", "flags">>
      [] c = "Smooth" -> <<"infile", "fwhm", "flags">>

\* self.inputs = Bunch(...): every option None, but write=True where the
\* operation has a write option
populate_inputs(c) ==
    [k \in Range(DeclaredOptions(c)) |->
        IF k = "write" THEN PyBool(TRUE) ELSE None]

\* the options that are not None, which _parseinputs copies and visits
Present(ins) == {k \in DOMAIN ins : ins[k] # None}

\* bool(v), the test of an if statement
Truthy(v) ==
    CASE v.kind = "none" -> FALSE
      [] v.kind = "bool" -> v.val
      [] v.kind \in {"int", "float"} -> v.val # 0
      [] OTHER -> v.val # <<>>

\* float(v) of a number
float(v) ==
    IF v.kind = "bool" THEN PyFloat(IF v.val THEN 1 ELSE 0) ELSE PyFloat(v.val)

\* int(v) of a number
int(v) ==
    IF v.kind = "bool" THEN PyInt(IF v.val THEN 1 ELSE 0) ELSE PyInt(v.val)

\* the state of one run of _parseinputs: einputs, the user's flags mapping
\* (None when there is none), the keys of einputs whose value is the very
\* object flags holds under that key, the exception raised ("" when none)
\* with its message, and the lines printed
ParseStart(einputs, ins) ==
    [einputs |-> einputs,
     flags |-> IF "flags" \in DOMAIN ins THEN ins["flags"] ELSE None,
     shared |-> {},
     exc |-> "",
     msg |-> <<>>,
     printed |-> <<>>]

\* a slip in GroupUpdate: the sub-group is replaced by the new pair alone
GroupUpdate_replaces(st, g, k, v) ==
    LET group == PyDict(<< <<k, v>> >>)
    IN [st EXCEPT !.einputs = DictSet(@, g, group),
                  !.flags = IF g \in st.shared THEN DictSet(@, g, group) ELSE @]

\* einputs[g].update({k: v}): the sub-group is changed in place, so that
\* the user's flags change with it when they hold the same object
GroupUpdate(st, g, k, v) ==
    LET group == DictSet(DictGet(st.einputs, g), k, v)
    IN [st EXCEPT !.einputs = DictSet(@, g, group),
                  !.flags = IF g \in st.shared THEN DictSet(@, g, group) ELSE @]

\* einputs[k] = v: the key is bound to another object
Rebind(st, k, v) ==
    [st EXCEPT !.einputs = DictSet(@, k, v), !.shared = @ \ {k}]

\* einputs.update(inputs['flags']): every key of flags is bound in einputs
\* to the object flags holds
MergeFlags(st, v) ==
    [st EXCEPT !.einputs = DictUpdate(@, v),
               !.shared = @ \cup Range(DictKeys(v))]

\* a slip in CheckedUpdate: the length is not checked
CheckedUpdate_unchecked(st, g, k, v, n, opt) ==
    GroupUpdate(st, g, k, v)

\* if not len(inputs[opt]) == n: raise ValueError('<opt> must have <n>
\* elements'), and the update of the sub-group otherwise
CheckedUpdate(st, g, k, v, n, opt) ==
    IF Len(v.val) # n
    THEN [st EXCEPT !.exc = "ValueError",
                    !.msg = <<opt, " must have ">> \o DecStr(n) \o <<" elements">>]
    ELSE GroupUpdate(st, g, k, v)

\* a slip in Unsupported: an option that is not recognized is passed on
Unsupported_passed_on(st, opt, v) ==
    [st EXCEPT !.einputs = DictSet(@, opt, v)]

\* print 'option %s not supported'%(opt), the end of the loop body that
\* only an option no branch has taken reaches
Unsupported(st, opt, v) ==
    [st EXCEPT !.printed = Append(@, opt)]

\* the body of Realign._parseinputs's loop for one option.  The flags
\* branch has no continue: no later branch matches 'flags', so the loop
\* body runs on to its print.
Realign_option(st, opt, v) ==
    CASE opt = "flags" -> Unsupported(MergeFlags(st, v), opt, v)
      [] opt = "infile" -> st
      [] opt = "write" -> st
      [] opt = "quality" -> GroupUpdate(st, "eoptions", "quality", float(v))
      [] opt = "fwhm" -> GroupUpdate(st, "eoptions", "fwhm", float(v))
      [] opt = "separation" -> GroupUpdate(st, "eoptions", "sep", float(v))
      [] opt = "register_to_mean" -> GroupUpdate(st, "eoptions", "rtm", PyInt(1))
      [] opt = "weight_img" -> GroupUpdate(st, "eoptions", "weight", v)
      [] opt = "interp" -> GroupUpdate(st, "eoptions", "interp", float(v))
      [] opt = "wrap" -> CheckedUpdate(st, "eoptions", "wrap", v, 3, opt)
      [] opt = "write_which" -> CheckedUpdate(st, "roptions", "which", v, 2, opt)
      [] opt = "write_interp" -> GroupUpdate(st, "roptions", "interp", v)
      [] opt = "write_wrap" -> CheckedUpdate(st, "roptions", "wrap", v, 3, opt)
      [] opt = "write_mask" -> GroupUpdate(st, "roptions", "mask", int(v))
      [] OTHER -> Unsupported(st, opt, v)

\* the body of Coregister._parseinputs's loop for one option
Coregister_option(st, opt, v) ==
    CASE opt = "target" -> st
      [] opt = "source" -> st
      [] opt = "infile" -> st
      [] opt = "write" -> st
      [] opt = "cost_function" -> GroupUpdate(st, "eoptions", "cost_fun", v)
      [] opt = "separation" -> GroupUpdate(st, "eoptions", "sep", float(v))
      [] opt = "tolerance" -> GroupUpdate(st, "eoptions", "tol", v)
      [] opt = "fwhm" -> GroupUpdate(st, "eoptions", "fwhm", float(v))
      [] opt = "write_interp" -> GroupUpdate(st, "roptions", "interp", v)
      [] opt = "write_wrap" -> CheckedUpdate(st, "roptions", "wrap", v, 3, opt)
      [] opt = "write_mask" -> GroupUpdate(st, "roptions", "mask", int(v))
      [] opt = "flags" -> MergeFlags(st, v)
      [] OTHER -> Unsupported(st, opt, v)

\* the body of Normalize._parseinputs's loop for one option
Normalize_option(st, opt, v) ==
    CASE opt = "template" -> GroupUpdate(st, "eoptions", "template", v)
      [] opt = "source" -> GroupUpdate(st, "subj", "source", v)
      [] opt = "infile" -> st
      [] opt = "write" -> st
      [] opt = "source_weight" -> GroupUpdate(st, "subj", "wtsrc", v)
      [] opt = "template_weight" -> GroupUpdate(st, "eoptions", "weight", v)
      [] opt = "source_image_smoothing" ->
            GroupUpdate(st, "eoptions", "smosrc", float(v))
      [] opt = "template_image_smoothing" ->
            GroupUpdate(st, "eoptions", "smoref", float(v))
      [] opt = "affine_regularization_type" ->
            GroupUpdate(st, "eoptions", "regtype", v)
      [] opt = "DCT_period_cutoff" -> GroupUpdate(st, "eoptions", "cutoff", v)
      [] opt = "nonlinear_iterations" -> GroupUpdate(st, "eoptions", "nits", v)
      [] opt = "nonlinear_regularization" ->
            GroupUpdate(st, "eoptions", "reg", float(v))
      [] opt = "write_preserve" -> GroupUpdate(st, "roptions", "preserve", v)
      [] opt = "write_bounding_box" -> GroupUpdate(st, "roptions", "bb", v)
      [] opt = "write_voxel_sizes" -> GroupUpdate(st, "roptions", "vox", v)
      [] opt = "write_interp" -> GroupUpdate(st, "roptions", "interp", v)
      [] opt = "write_wrap" -> CheckedUpdate(st, "roptions", "wrap", v, 3, opt)
      [] opt = "flags" -> MergeFlags(st, v)
      [] OTHER -> Unsupported(st, opt, v)

\* the body of Smooth._parseinputs's loop for one option
Smooth_option(st, opt, v) ==
    CASE opt = "infile" -> st
      [] opt = "fwhm" -> Rebind(st, "fwhm", v)
      [] opt = "data_type" -> Rebind(st, "dtype", v)
      [] opt = "flags" -> MergeFlags(st, v)
      [] OTHER -> Unsupported(st, opt, v)

\* einputs as _parseinputs first binds it
InitialEinputs(c) ==
    CASE c = "Normalize" ->
            PyDict(<< <<"subj", PyDict(<<>>)>>, <<"eoptions", PyDict(<<>>)>>,
                      <<"roptions", PyDict(<<>>)>> >>)
      [] c = "Smooth" ->
            PyDict(<< <<"fwhm", PyList(<<>>)>>, <<"dtype", PyInt(0)>> >>)
      [] OTHER ->
            PyDict(<< <<"eoptions", PyDict(<<>>)>>, <<"roptions", PyDict(<<>>)>> >>)

ParseOption(c, st, opt, v) ==
    CASE c = "Realign" -> Realign_option(st, opt, v)
      [] c = "Coregister" -> Coregister_option(st, opt, v)
      [] c = "Normalize" -> Normalize_option(st, opt, v)
      [] c = "Smooth" -> Smooth_option(st, opt, v)

RECURSIVE ParseLoop(_, _, _, _)
\* for opt in inputs: the options visited in the order `order`, up to the
\* first that raises
ParseLoop(c, st, order, ins) ==
    IF order = <<>> \/ st.exc # "" THEN st
    ELSE ParseLoop(c, ParseOption(c, st, Head(order), ins[Head(order)]),
                   Tail(order), ins)

\* self._parseinputs() of an instance of class c with the options ins, the
\* dict of the options that are not None iterating in the order `order`
parseinputs(c, ins, order) ==
    ParseLoop(c, ParseStart(InitialEinputs(c), ins), order, ins)

----------------------------------------------------------------------------
(* The job assemblers: _compile_command, make_mfile and make_job *)

\* a slip in JobType: the estimate-only variant of Realign for Normalize too
JobType_estimate(c, ins) ==
    IF Truthy(ins["write"]) THEN "estwrite" ELSE "estimate"

\* if self.inputs.write: jobtype = 'estwrite', else 'estimate' (Realign,
\* Coregister) or 'est' (Normalize)
JobType(c, ins) ==
    IF Truthy(ins["write"]) THEN "estwrite"
    ELSE IF c = "Normalize" THEN "est" ELSE "estimate"

\* the jobname each class passes to make_mfile and make_job
JobName(c) ==
    CASE c = "Realign" -> "realign"
      [] c = "Coregister" -> "coreg"
      [] c = "Normalize" -> "normalise"
      [] c = "Smooth" -> "smooth"

\* sess_scans: scans_for_fnames for a list, scans_for_fname for all else
SessScans(fs, infile) ==
    IF infile.kind = "list" THEN scans_for_fnames(fs, infile)
    ELSE scans_for_fname(fs, infile)

\* Normalize only: valid_inputs['subj']['resample'] = sess_scans
WithResample(c, st, scans) ==
    IF c = "Normalize" THEN GroupUpdate(st, "subj", "resample", scans) ELSE st

\* tmp, the job structure built from the valid options and the data
JobStructure(c, ins, valid, scans) ==
    LET body ==
          CASE c = "Realign" ->
                  PyDict(<< <<"data", scans>>,
                            <<"eoptions", DictGet(valid, "eoptions")>>,
                            <<"roptions", DictGet(valid, "roptions")>> >>)
            [] c = "Coregister" ->
                  PyDict(<< <<"ref", ins["target"]>>,
                            <<"source", ins["source"]>>,
                            <<"other", scans>>,
                            <<"eoptions", DictGet(valid, "eoptions")>>,
                            <<"roptions", DictGet(valid, "roptions")>> >>)
            [] c = "Normalize" ->
                  PyDict(<< <<"subj", DictGet(valid, "subj")>>,
                            <<"eoptions", DictGet(valid, "eoptions")>>,
                            <<"roptions", DictGet(valid, "roptions")>> >>)
            [] c = "Smooth" ->
                  PyDict(<< <<"data", scans>>, <<"fwhm", DictGet(valid, "fwhm")>> >>)
    IN IF c = "Smooth" THEN PyList(<<body>>)
       ELSE PyList(<<PyDict(<< <<JobType(c, ins), body>> >>)>>)

\* 'jobs{1}.%s{1}.%s{1}' % (jobtype,jobname)
MfilePrefix(jobtype, jobname) ==
    <<"jobs", "{1}", ".", jobtype, "{1}", ".", jobname, "{1}">>

\* make_mfile(jobtype, jobname, contents), first being the iteration view
\* of contents[0]
make_mfile(jobtype, jobname, first) ==
    <<"% generated by nipype.interfaces.spm", "\n", "spm_defaults", ";", "\n", "\n">>
        \o generate_job(MfilePrefix(jobtype, jobname), first)
        \o <<"spm_jobman('run',jobs)", ";">>

\* make_job(jobtype, jobname, contents)
make_job(jobtype, jobname, tmp) ==
    PyDict(<< <<"jobs",
               PyList(<<PyDict(<< <<jobtype,
                                    PyList(<<PyDict(<< <<jobname, tmp>> >>)>>)>> >>)>>)>> >>)

----------------------------------------------------------------------------
(* An operation instance: the user sets options, then compiles the job *)

\* the volumes on disk: a.nii has 4 dimensions and 2 frames, d/b.nii has 3
MainVolumes ==
    (PyString(<<"a", ".nii">>) :> <<2, 2, 2, 2>>)
        @@ (PyString(<<"d", "/", "b", ".nii">>) :> <<2, 2, 2>>)

\* the lengths inputs_help documents for the list options
FixedLength(c, k) ==
    CASE c = "Realign" /\ k = "wrap" -> 3
      [] c = "Realign" /\ k = "write_which" -> 2
      [] c = "Realign" /\ k = "write_wrap" -> 3
      [] c = "Coregister" /\ k = "write_wrap" -> 3
      [] c = "Coregister" /\ k = "tolerance" -> 12
      [] c = "Normalize" /\ k = "write_wrap" -> 3
      [] c = "Normalize" /\ k = "write_bounding_box" -> 6
      [] c = "Normalize" /\ k = "write_voxel_sizes" -> 3
      [] c = "Smooth" /\ k = "fwhm" -> 3
      [] OTHER -> 0

\* a list of n numbers: 0, ..., 0, last
NumList(n, last) ==
    PyList([i \in 1..n |-> PyInt(IF i = n THEN last ELSE 0)])

\* an option no class knows
UnknownOption == "bogus"

\* the options a user assigns: the declared ones, Smooth's data_type, which
\* _parseinputs reads though _populate_inputs does not declare it, and one
\* that no class knows
SettableOptions(c) ==
    Range(DeclaredOptions(c)) \cup {UnknownOption}
        \cup (IF c = "Smooth" THEN {"data_type"} ELSE {})

FlagsValues ==
    {PyDict(<< <<"eoptions", PyDict(<< <<"suboption", PyInt(7)>> >>)>> >>),
     PyDict(<< <<"extra", PyInt(9)>> >>)}

\* the values a user assigns to option k of class c
OptionValues(c, k) ==
    CASE FixedLength(c, k) > 0 ->
            {NumList(FixedLength(c, k), 1), NumList(FixedLength(c, k) - 1, 1)}
      [] k = "infile" ->
            {PyString(<<"a", ".nii">>), PyString(<<"d", "/", "b", ".nii">>),
             PyList(<<PyString(<<"a", ".nii">>)>>)}
      [] k = "write" -> {PyBool(FALSE)}
      [] k \in {"register_to_mean", "write_mask"} -> {PyBool(TRUE), PyBool(FALSE)}
      [] k \in {"target", "source", "template", "weight_img", "source_weight",
                "template_weight"} -> {PyString(<<"t", ".nii">>)}
      [] k \in {"cost_function", "affine_regularization_type"} ->
            {PyString(<<"m", "i">>)}
      [] k = "fwhm" -> {PyInt(5)}
      [] k = "separation" -> {PyInt(4)}
      [] k = "flags" -> FlagsValues
      [] k = UnknownOption -> {PyString(<<"BOGUS">>)}
      [] OTHER -> {PyInt(2)}

\* the options the user has assigned
UserSet(c, ins) ==
    {k \in DOMAIN ins : k \notin DOMAIN populate_inputs(c)
                           \/ ins[k] # populate_inputs(c)[k]}

\* the user's flags after a call that may have changed them
WithFlags(ins, f) ==
    IF "flags" \in DOMAIN ins /\ ins["flags"] # None
    THEN [ins EXCEPT !["flags"] = f] ELSE ins

Init ==
    /\ cls \in Classes
    /\ inputs = populate_inputs(cls)
    /\ shape = MainVolumes
    /\ IdleSerializer
    /\ fname = None
    /\ ret = NoCall

\* self.inputs.k = v, before the operation is used
SetInput ==
    /\ ret.op = "none"
    /\ Cardinality(UserSet(cls, inputs)) < MaxSet
    /\ \E k \in SettableOptions(cls) \ UserSet(cls, inputs) :
          \E v \in OptionValues(cls, k) :
             inputs' = IF k \in DOMAIN inputs THEN [inputs EXCEPT ![k] = v]
                       ELSE (k :> v) @@ inputs
    /\ UNCHANGED <<cls, shape, prefix, contents, fname, ret>>

\* what self._parseinputs() can end as: `for opt in inputs` visits the keys
\* of a dict, in whatever order its hash table holds them
ParseOutcomes(c, ins) ==
    {parseinputs(c, ins, order) : order \in Perms(Present(ins))}

\* valid_inputs = self._parseinputs()
Parse ==
    /\ ret.op = "none"
    /\ \E st \in ParseOutcomes(cls, inputs) :
          /\ ret' = [op |-> "_parseinputs", mfile |-> FALSE, before |-> inputs,
                     exc |-> st.exc, msg |-> st.msg, printed |-> st.printed,
                     valid |-> IF st.exc = "" THEN st.einputs ELSE None,
                     tmp |-> None, value |-> None]
          /\ inputs' = WithFlags(inputs, st.flags)
    /\ UNCHANGED <<cls, shape, prefix, contents, fname>>

\* job = self._compile_command(mfile)
Compile ==
    /\ ret.op = "none"
    /\ \E mfile \in BOOLEAN, parsed \in ParseOutcomes(cls, inputs) :
          LET scans == SessScans(shape, inputs["infile"])
              st == IF parsed.exc = "" /\ scans.exc = ""
                    THEN WithResample(cls, parsed, scans.value) ELSE parsed
              exc == IF parsed.exc # "" THEN parsed.exc ELSE scans.exc
              tmp == IF exc = "" THEN JobStructure(cls, inputs, st.einputs, scans.value)
                     ELSE None
              call == [op |-> "_compile_command", mfile |-> mfile, before |-> inputs,
                       exc |-> exc, msg |-> parsed.msg, printed |-> parsed.printed,
                       valid |-> IF exc = "" THEN st.einputs ELSE None,
                       tmp |-> tmp, value |-> None]
          IN /\ inputs' = WithFlags(inputs, st.flags)
             /\ IF exc # "" THEN ret' = call
                ELSE IF mfile
                THEN \E first \in IterViews(tmp.val[1]) :
                        ret' = [call EXCEPT
                                  !.value = PyString(make_mfile("spatial", JobName(cls), first))]
                ELSE ret' = [call EXCEPT !.value = make_job("spatial", JobName(cls), tmp)]
    /\ UNCHANGED <<cls, shape, prefix, contents, fname>>

\* the caller drops what the call returned and keeps the instance
Discard ==
    /\ ret.op # "none"
    /\ ret' = NoCall
    /\ UNCHANGED <<cls, inputs, shape, prefix, contents, fname>>

Next == SetInput \/ Parse \/ Compile \/ Discard

Spec == Init /\ [][Next]_vars

----------------------------------------------------------------------------
(* Reading a job script back: its assignments and their paths *)

\* the positions that end a statement of a text: the newline after a ";",
\* and the end of the text
StatementEnds(t) ==
    {i + 1 : i \in {j \in 1..(Len(t) - 1) : t[j] = ";" /\ t[j + 1] = "\n"}}
        \cup (IF t = <<>> THEN {} ELSE {Len(t)})

\* the text cut after every terminator, a ";" that a newline follows; text
\* left after the last terminator is a statement of its own
Statements(t) ==
    LET ends == StatementEnds(t)
        before(e) == {d \in ends : d < e}
        first(e) == IF before(e) = {} THEN 1
                    ELSE 1 + CHOOSE d \in before(e) : \A c \in before(e) : c <= d
    IN [k \in 1..Cardinality(ends) |->
           LET e == CHOOSE d \in ends : Cardinality(before(d)) = k - 1
           IN SubSeq(t, first(e), e)]

\* the tokens of a statement before its " = "
Lhs(stmt) ==
    IF \E i \in DOMAIN stmt : stmt[i] = " = "
    THEN SubSeq(stmt, 1, (CHOOSE i \in DOMAIN stmt :
                             /\ stmt[i] = " = "
                             /\ \A j \in 1..(i - 1) : stmt[j] # " = ") - 1)
    ELSE stmt

RECURSIVE ParsePath(_)
\* a path cut into its components: ".key" or "(index)"; what cannot be read
\* is left as one last component
ParsePath(toks) ==
    IF toks = <<>> THEN <<>>
    ELSE IF Head(toks) = "." /\ Len(toks) >= 2
         THEN <<SubSeq(toks, 1, 2)>> \o ParsePath(SubSeq(toks, 3, Len(toks)))
    ELSE IF Head(toks) = "(" /\ \E j \in DOMAIN toks : toks[j] = ")"
         THEN LET j == CHOOSE k \in DOMAIN toks :
                          toks[k] = ")" /\ \A m \in 1..(k - 1) : toks[m] # ")"
              IN <<SubSeq(toks, 1, j)>> \o ParsePath(SubSeq(toks, j + 1, Len(toks)))
    ELSE <<toks>>

\* the path a statement assigns to, below the root prefix pfx
PathOf(stmt, pfx) ==
    LET lhs == Lhs(stmt)
    IN IF Len(lhs) >= Len(pfx) /\ SubSeq(lhs, 1, Len(pfx)) = pfx
       THEN ParsePath(SubSeq(lhs, Len(pfx) + 1, Len(lhs)))
       ELSE << <<"?">> \o lhs >>

\* every node a script names below pfx: the paths of its assignments and
\* the groups these lie in
TextTree(t, pfx) ==
    UNION {{SubSeq(PathOf(st, pfx), 1, n) : n \in 1..Len(PathOf(st, pfx))} :
           st \in Range(Statements(t))}

IndexComponent(i) == <<"(">> \o DecStr(i) \o <<")">>

KeyComponent(k) == <<".", k>>

RECURSIVE ValueTree(_)
\* every node of a value below its root, as the path that leads to it
ValueTree(v) ==
    CASE v.kind = "dict" ->
            UNION {{<<KeyComponent(v.val[i][1])>>}
                     \cup {<<KeyComponent(v.val[i][1])>> \o q : q \in ValueTree(v.val[i][2])} :
                   i \in DOMAIN v.val}
      [] v.kind = "list" ->
            UNION {{<<IndexComponent(i)>>}
                     \cup {<<IndexComponent(i)>> \o q : q \in ValueTree(v.val[i])} :
                   i \in DOMAIN v.val}
      [] OTHER -> {}

\* the longest path of a tree
Depth(tree) ==
    IF tree = {} THEN 0
    ELSE CHOOSE n \in {Len(q) : q \in tree} : \A q \in tree : Len(q) <= n

RECURSIVE Dedupe(_)
\* a sequence with every run of equal neighbours cut to one element
Dedupe(s) ==
    IF Len(s) <= 1 THEN s
    ELSE IF s[1] = s[2] THEN Dedupe(Tail(s))
    ELSE <<s[1]>> \o Dedupe(Tail(s))

\* the first path component of every assignment of a script, in order
FirstComponents(t, pfx) ==
    [i \in DOMAIN Statements(t) |->
        IF PathOf(Statements(t)[i], pfx) = <<>> THEN <<>>
        ELSE Head(PathOf(Statements(t)[i], pfx))]

RECURSIVE Silent(_)
\* a value with no leaf in it: an empty list or dict, or one of such only
Silent(v) ==
    /\ v.kind \in {"list", "dict"}
    /\ \A i \in DOMAIN v.val :
          Silent(IF v.kind = "dict" THEN v.val[i][2] ELSE v.val[i])

RECURSIVE HasEmptyGroup(_)
\* some list or dict below the root of v is empty
HasEmptyGroup(v) ==
    /\ v.kind \in {"list", "dict"}
    /\ \E i \in DOMAIN v.val :
          LET w == IF v.kind = "dict" THEN v.val[i][2] ELSE v.val[i]
          IN \/ (w.kind \in {"list", "dict"} /\ w.val = <<>>)
             \/ HasEmptyGroup(w)

RECURSIVE LeavesOf(_)
\* the leaves of an iteration view, in the order they are reached
LeavesOf(v) ==
    CASE v.kind = "dict" -> Flatten([i \in DOMAIN v.val |-> LeavesOf(v.val[i][2])])
      [] v.kind = "list" -> Flatten([i \in DOMAIN v.val |-> LeavesOf(v.val[i])])
      [] OTHER -> <<v>>

\* how many times token x occurs in text t
Count(x, t) == Cardinality({i \in DOMAIN t : t[i] = x})

Generated == ret.op = "generate_job"

----------------------------------------------------------------------------
(* Claims about the serializer, under SpecGen *)

\* the indices of the elements of a view that emit text, as path components
EmittingIndices(view) ==
    LET idx == SelectSeq([i \in DOMAIN view.val |-> i],
                         LAMBDA i : ~Silent(view.val[i]))
    IN [n \in DOMAIN idx |-> IndexComponent(idx[n])]

\* the concatenation, in element order, of element i serialized under P(i)
ListConcat ==
    ret.value = Flatten([i \in DOMAIN ret.view.val |->
                            generate_job(prefix \o <<"(">> \o DecStr(i) \o <<")">>,
                                         ret.view.val[i])])

\* C1, as stated: the output for a list of length N is the concatenation, in
\* element order, of the serializations of element i under prefix P(i+1),
\* and exactly the indices 1..N appear, each once, in increasing order.
C1_AllIndicesAppear ==
    (Generated /\ contents.kind = "list") =>
        /\ ListConcat
        /\ Dedupe(FirstComponents(ret.value, prefix))
              = [i \in DOMAIN contents.val |-> IndexComponent(i)]

\* C1, amended: the output for a list is that concatenation; the indices
\* that appear are those of the elements that emit text (an element that is
\* an empty list or dict, or is made of such only, emits none), in
\* increasing order, each as one run of assignments.
C1_EmittingIndicesAppear ==
    (Generated /\ contents.kind = "list") =>
        /\ ListConcat
        /\ Dedupe(FirstComponents(ret.value, prefix)) = EmittingIndices(ret.view)

\* a list of two elements was serialized, the first emitting nothing
C1_Witness ==
    /\ Generated
    /\ contents.kind = "list"
    /\ Len(contents.val) = 2
    /\ Silent(contents.val[1])
    /\ ~Silent(contents.val[2])
    /\ ret.value # <<>>

\* the keys of the pairs of a view whose values emit text, as components
EmittingKeys(view) ==
    LET idx == SelectSeq([i \in DOMAIN view.val |-> i],
                         LAMBDA i : ~Silent(view.val[i][2]))
    IN [n \in DOMAIN idx |-> KeyComponent(view.val[idx[n]][1])]

\* C2, as stated: the output for a dict is the concatenation of the
\* serializations of each value under P.key, the keys taken in the order in
\* which they were inserted.
C2_InsertionOrder ==
    (Generated /\ contents.kind = "dict") =>
        ret.value = Flatten([i \in DOMAIN contents.val |->
                                generate_job(prefix \o <<".", contents.val[i][1]>>,
                                             DictGet(ret.view, contents.val[i][1]))])

\* C2, amended: the output for a dict is the concatenation of the
\* serializations of each value under P.key, every key once, the keys taken
\* in the order the dict iterates them, which need not be the order of
\* insertion.
C2_IterationOrder ==
    (Generated /\ contents.kind = "dict") =>
        /\ ret.value = Flatten([i \in DOMAIN ret.view.val |->
                                   generate_job(prefix \o <<".", ret.view.val[i][1]>>,
                                                ret.view.val[i][2])])
        /\ Len(ret.view.val) = Len(contents.val)
        /\ Range(DictKeys(ret.view)) = Range(DictKeys(contents))
        /\ Dedupe(FirstComponents(ret.value, prefix)) = EmittingKeys(ret.view)

\* a dict of two keys was serialized, its second key first
C2_Witness ==
    /\ Generated
    /\ contents.kind = "dict"
    /\ Len(contents.val) = 2
    /\ ret.view.val[1][1] = contents.val[2][1]
    /\ Len(EmittingKeys(ret.view)) = 2

\* C3, as stated: for every nested dict, also one that holds an empty
\* sub-group, reading the script back gives the same keys at every level and
\* the same nesting depth as the dict has.
C3_RoundTripAlways ==
    (Generated /\ contents.kind = "dict") =>
        /\ TextTree(ret.value, prefix) = ValueTree(contents)
        /\ Depth(TextTree(ret.value, prefix)) = Depth(ValueTree(contents))

\* C3, amended: for every nested dict in which no list or dict below the
\* root is empty, reading the script back gives the same keys at every level
\* and the same nesting depth as the dict has.
C3_RoundTripNoEmptyGroup ==
    (Generated /\ contents.kind = "dict" /\ ~HasEmptyGroup(contents)) =>
        /\ TextTree(ret.value, prefix) = ValueTree(contents)
        /\ Depth(TextTree(ret.value, prefix)) = Depth(ValueTree(contents))

\* a dict of two sub-groups, neither empty, was serialized
C3_Witness ==
    /\ Generated
    /\ contents.kind = "dict"
    /\ ~HasEmptyGroup(contents)
    /\ Len(contents.val) = 2
    /\ \A i \in DOMAIN contents.val : contents.val[i][2].kind \in {"dict", "list"}
    /\ Depth(TextTree(ret.value, prefix)) = 2

\* the default text of the scalars that are drawn
DefaultText(v) ==
    CASE v = PyInt(0) -> <<"0">>
      [] v = PyInt(1) -> <<"1">>
      [] v = PyFloat(5) -> <<"5", ".", "0">>
      [] v = PyBool(TRUE) -> <<"True">>
      [] v = PyBool(FALSE) -> <<"False">>
      [] OTHER -> <<"?">>

\* C4: a string leaf is emitted as P = 'value'; and a newline, any other
\* scalar leaf as P = <default text>; and a newline, unquoted.
C4_ScalarLeaf ==
    (Generated /\ contents.kind \in {"str", "int", "float", "bool"}) =>
        ret.value = prefix \o <<" = ">>
                      \o (IF contents.kind = "str"
                          THEN <<"'">> \o contents.val \o <<"'">>
                          ELSE DefaultText(contents))
                      \o <<";", "\n">>

\* a string leaf was serialized
C4_Witness ==
    /\ Generated
    /\ contents.kind = "str"
    /\ Len(ret.value) > Len(prefix)

\* C5, as stated: every emitted assignment ends with ";" and a newline and
\* holds exactly one ";".
C5_OneSemicolon ==
    Generated =>
        \A st \in Range(Statements(ret.value)) :
            /\ Len(st) >= 2
            /\ SubSeq(st, Len(st) - 1, Len(st)) = <<";", "\n">>
            /\ Count(";", st) = 1

\* C5, amended: every leaf emits one assignment, which ends with ";" and a
\* newline, this terminator being its only ";" that a newline follows; the
\* assignment of a scalar holds exactly one ";", and the brace-delimited
\* assignment of an array of N strings holds N more, one after each string,
\* inside the braces.
C5_OneTerminator ==
    Generated =>
        LET sts == Statements(ret.value)
            leaves == LeavesOf(ret.view)
        IN /\ Len(sts) = Len(leaves)
           /\ \A i \in DOMAIN sts :
                 /\ Len(sts[i]) >= 2
                 /\ SubSeq(sts[i], Len(sts[i]) - 1, Len(sts[i])) = <<";", "\n">>
                 /\ Count(";", sts[i])
                       = 1 + (IF leaves[i].kind = "ndarray"
                              THEN Len(leaves[i].val) ELSE 0)

\* an array of two strings was serialized, next to a scalar
C5_Witness ==
    /\ Generated
    /\ contents.kind = "list"
    /\ Len(contents.val) = 2
    /\ contents.val[1].kind = "ndarray"
    /\ Len(contents.val[1].val) = 2
    /\ contents.val[2].kind = "int"
    /\ Len(Statements(ret.value)) = 2

----------------------------------------------------------------------------
(* Claims about the frame enumerator, under SpecScans *)

\* C10: scans_for_fname returns exactly one frame reference for a volume of
\* 3 dimensions, and for a volume of 4 dimensions with N frames exactly N
\* frame references, the i-th holding the path and the 1-based index i.
C10_FrameReferences ==
    (ret.op = "scans_for_fname" /\ fname \in DOMAIN shape
        /\ Len(shape[fname]) \in {3, 4}) =>
        LET n == IF Len(shape[fname]) = 3 THEN 1 ELSE shape[fname][4]
        IN /\ ret.exc = ""
           /\ ret.value.kind = "ndarray"
           /\ Len(ret.value.val) = n
           /\ \A i \in 1..n :
                 ret.value.val[i]
                    = PyArray(<<PyString(fname.val \o <<",">> \o DecStr(i))>>)

----------------------------------------------------------------------------
(* Claims about the option normalizers and the job assemblers, under Spec *)

Parsed == ret.op = "_parseinputs"

Compiled == ret.op = "_compile_command"

RECURSIVE Occurs(_, _)
\* value x is v, or lies somewhere in v
Occurs(x, v) ==
    \/ v = x
    \/ /\ v.kind \in {"list", "ndarray"}
       /\ \E i \in DOMAIN v.val : Occurs(x, v.val[i])
    \/ /\ v.kind = "dict"
       /\ \E i \in DOMAIN v.val : Occurs(x, v.val[i][2])

RECURSIVE Canon(_)
\* a value with the pairs of every dict in it as a set: two values are the
\* same structure when their Canon is equal
Canon(v) ==
    CASE v.kind = "dict" ->
            [kind |-> "dict", val |-> {<<v.val[i][1], Canon(v.val[i][2])>> : i \in DOMAIN v.val}]
      [] v.kind \in {"list", "ndarray"} ->
            [kind |-> v.kind, val |-> [i \in DOMAIN v.val |-> Canon(v.val[i])]]
      [] OTHER -> v

\* the option names the loop of a class's _parseinputs has a branch for
Recognized(c) ==
    Range(DeclaredOptions(c)) \cup (IF c = "Smooth" THEN {"data_type"} ELSE {})

\* C6: for each operation and every present option whose name is not
\* recognized, _parseinputs ends as it ends without that option (it raises
\* only what a recognized option makes it raise, and returns the same
\* structure), and the option's value appears nowhere in what it returns.
C6_UnrecognizedIgnored ==
    (Parsed /\ Present(ret.before) \ Recognized(cls) # {}) =>
        LET known == [k \in DOMAIN ret.before \cap Recognized(cls) |-> ret.before[k]]
        IN /\ \E st \in ParseOutcomes(cls, known) :
                 /\ st.exc = ret.exc
                 /\ st.msg = ret.msg
                 /\ ret.exc = "" => st.einputs = ret.valid
           /\ ret.exc # "" => ret.msg[1] \in Recognized(cls)
           /\ \A k \in Present(ret.before) \ Recognized(cls) :
                 ~Occurs(ret.before[k], ret.valid)

\* Realign normalized fwhm while an unrecognized option was present
C6_Witness ==
    /\ Parsed
    /\ cls = "Realign"
    /\ UnknownOption \in Present(ret.before)
    /\ "fwhm" \in Present(ret.before)
    /\ ret.exc = ""
    /\ DictGet(DictGet(ret.valid, "eoptions"), "fwhm") = PyFloat(5)

\* the present options of a documented length whose value has another length
WrongLength(c, ins) ==
    {k \in Present(ins) : FixedLength(c, k) > 0 /\ Len(ins[k].val) # FixedLength(c, k)}

\* C7: normalizing with an option of a documented length (Realign wrap=3,
\* write_which=2, write_wrap=3; Coregister write_wrap=3, tolerance=12;
\* Normalize write_wrap=3, write_bounding_box=6, write_voxel_sizes=3; Smooth
\* fwhm=3) whose value has another length raises a validation error naming
\* the option and the required count, and never raises when every such
\* option has its length.
C7_FixedLengthsChecked ==
    Parsed =>
        /\ WrongLength(cls, ret.before) # {} =>
              /\ ret.exc = "ValueError"
              /\ \E k \in WrongLength(cls, ret.before) :
                    ret.msg = <<k, " must have ">> \o DecStr(FixedLength(cls, k))
                                 \o <<" elements">>
        /\ WrongLength(cls, ret.before) = {} => ret.exc = ""

\* the target key of each estimation option of Realign
RealignEstimation ==
    ("quality" :> "quality") @@ ("fwhm" :> "fwhm") @@ ("separation" :> "sep")
        @@ ("register_to_mean" :> "rtm") @@ ("weight_img" :> "weight")
        @@ ("interp" :> "interp") @@ ("wrap" :> "wrap")

\* the target key of each write option of Realign
RealignWrite ==
    ("write_which" :> "which") @@ ("write_interp" :> "interp")
        @@ ("write_wrap" :> "wrap") @@ ("write_mask" :> "mask")

\* C8: for Realign with no flags option, _parseinputs returns exactly the
\* sub-groups eoptions and roptions, eoptions holding exactly the target
\* keys of the present estimation options and roptions those of the present
\* write options; {fwhm: 5, separation: 4, wrap: [0,0,1]} gives eoptions =
\* {fwhm: 5.0, sep: 4.0, wrap: [0,0,1]} and an empty roptions.
C8_RealignGroups ==
    (Parsed /\ cls = "Realign" /\ "flags" \notin Present(ret.before)
        /\ ret.exc = "") =>
        LET eo == DictGet(ret.valid, "eoptions")
            ro == DictGet(ret.valid, "roptions")
            set == Present(ret.before)
        IN /\ Len(ret.valid.val) = 2
           /\ Range(DictKeys(ret.valid)) = {"eoptions", "roptions"}
           /\ Range(DictKeys(eo)) = {RealignEstimation[k] : k \in set \cap DOMAIN RealignEstimation}
           /\ Len(eo.val) = Cardinality(set \cap DOMAIN RealignEstimation)
           /\ Range(DictKeys(ro)) = {RealignWrite[k] : k \in set \cap DOMAIN RealignWrite}
           /\ Len(ro.val) = Cardinality(set \cap DOMAIN RealignWrite)
           /\ set = {"write", "fwhm", "separation", "wrap"} =>
                 Canon(ret.valid)
                    = Canon(PyDict(<< <<"roptions", PyDict(<<>>)>>,
                                      <<"eoptions",
                                        PyDict(<< <<"wrap", PyList(<<PyInt(0), PyInt(0), PyInt(1)>>)>>,
                                                  <<"sep", PyFloat(4)>>,
                                                  <<"fwhm", PyFloat(5)>> >>)>> >>))

\* Realign normalized exactly fwhm, separation and wrap
C8_Witness ==
    /\ Parsed
    /\ cls = "Realign"
    /\ ret.exc = ""
    /\ Present(ret.before) = {"write", "fwhm", "separation", "wrap"}
    /\ Len(DictGet(ret.valid, "eoptions").val) = 3

\* the variant name the claim gives a class for a write flag
VariantName(c, write) ==
    IF write = PyBool(TRUE) THEN "estwrite"
    ELSE IF c = "Normalize" THEN "est" ELSE "estimate"

\* the assignments of a generated mfile: what lies between its two header
\* lines and its last line
MfileBody(text) == SubSeq(text, 7, Len(text) - 2)

\* C9: for Realign, Coregister and Normalize the one top-level key of the
\* job instance _compile_command builds is named by the write flag alone:
\* the estimate-only variant for write false, the estimate-and-write
\* variant for write true, whatever the other options are.
C9_VariantByWrite ==
    (Compiled /\ ret.exc = "" /\ cls \in {"Realign", "Coregister", "Normalize"}) =>
        LET name == VariantName(cls, ret.before["write"])
        IN /\ Len(ret.tmp.val) = 1
           /\ DictKeys(ret.tmp.val[1]) = <<name>>
           /\ ret.mfile =>
                 LET stmts == Statements(MfileBody(ret.value.val))
                 IN /\ stmts # <<>>
                    /\ \A i \in DOMAIN stmts :
                          Head(PathOf(stmts[i], MfilePrefix("spatial", JobName(cls))))
                             = KeyComponent(name)
           /\ ~ret.mfile =>
                 DictKeys(DictGet(DictGet(DictGet(ret.value, "jobs").val[1],
                                          "spatial").val[1],
                                  JobName(cls)).val[1]) = <<name>>

\* Normalize compiled an mfile with write false
C9_Witness ==
    /\ Compiled
    /\ ret.exc = ""
    /\ cls = "Normalize"
    /\ ret.before["write"] = PyBool(FALSE)
    /\ ret.mfile
    /\ Len(ret.value.val) > 9

----------------------------------------------------------------------------
(* A further claim about the frame enumerator, under SpecScans *)

\* C11: scans_for_fname fails, and returns no frame reference, whenever the
\* volume has neither 3 nor 4 dimensions.
C11_UnsupportedRankFails ==
    (ret.op = "scans_for_fname" /\ fname \in DOMAIN shape
        /\ Len(shape[fname]) \notin {3, 4}) =>
        /\ ret.exc # ""
        /\ ret.value = None

----------------------------------------------------------------------------
(* Dispatch: run_jobdef, the output names, and run() of each class *)

\* what the world outside the module does during one call: whether
\* savemat() writes pyjobs.mat, and how mlab.run_matlab_script() ends, by
\* returning what the engine printed or by raising
Environments ==
    [saved : BOOLEAN,
     engine : {Returned(PyString(<<"engine output">>)), Raised("OSError")}]

\* the calls run_jobdef makes before its finally clause: savemat, and the
\* engine when savemat returned
JobdefCalls(env) ==
    IF env.saved THEN <<"savemat", "run_matlab_script">> ELSE <<"savemat">>

\* run_jobdef(jobdef): the body of the try either returns matlab_out or
\* raises; the finally clause then prints and returns None, and a return in
\* a finally clause discards both the value being returned and the
\* exception being raised
run_jobdef(env) ==
    [exc |-> "", value |-> None,
     printed |-> <<"Failed to run jobdef">>,
     calls |-> JobdefCalls(env)]

\* the file name extensions os.path.splitext() meets in the drawn names
Extensions == {".nii"}

\* the position of the last "/" of a path, 0 when it has none
LastSlash(path) ==
    IF \E i \in DOMAIN path : path[i] = "/"
    THEN CHOOSE i \in DOMAIN path :
            path[i] = "/" /\ \A j \in (i + 1)..Len(path) : path[j] # "/"
    ELSE 0

\* os.path.join(pth, name)
PathJoin(pth, name) ==
    IF pth = <<>> THEN name ELSE pth \o <<"/">> \o name

\* fname_presuffix(fname, prefix, suffix, use_ext): split the path into
\* directory, base name and extension, and join them again with the prefix
\* before and the suffix after the base name
fname_presuffix(f, pre, suf, use_ext) ==
    LET cut == LastSlash(f.val)
        pth == SubSeq(f.val, 1, cut - 1)
        name == SubSeq(f.val, cut + 1, Len(f.val))
        hasext == Len(name) >= 2 /\ name[Len(name)] \in Extensions
        base == IF hasext THEN SubSeq(name, 1, Len(name) - 1) ELSE name
        ext == IF hasext /\ use_ext THEN <<name[Len(name)]>> ELSE <<>>
    IN PyString(PathJoin(pth, pre \o base \o suf \o ext))

\* fnames_presuffix(fnames, prefix, suffix): fname_presuffix of each name
fnames_presuffix(fnames, pre, suf) ==
    PyList([i \in DOMAIN fnames.val |-> fname_presuffix(fnames.val[i], pre, suf, TRUE)])

\* job = self._compile_command(mfile), as far as run() can tell: how it
\* ended, what it printed and what it left in the user's flags
CompileStep(c, ins, fs, parsed) ==
    LET scans == SessScans(fs, ins["infile"])
        st == IF parsed.exc = "" /\ scans.exc = ""
              THEN WithResample(c, parsed, scans.value) ELSE parsed
    IN [exc |-> IF parsed.exc # "" THEN parsed.exc ELSE scans.exc,
        msg |-> parsed.msg, printed |-> parsed.printed, flags |-> st.flags]

\* the dispatch of run(): mlab.run_matlab_script(job, ...) when mfile is
\* true, run_jobdef(job) when it is not
Dispatch(mfile, env) ==
    IF mfile
    THEN [exc |-> env.engine.exc, out |-> env.engine.value, printed |-> <<>>,
          calls |-> <<"run_matlab_script">>]
    ELSE [exc |-> "", out |-> run_jobdef(env).value,
          printed |-> run_jobdef(env).printed,
          calls |-> <<"run_jobdef">> \o run_jobdef(env).calls]

\* a slip in RunSteps: the engine is started whether or not the job
\* compiled
RunSteps_dispatch_anyway(cmp, d) ==
    [calls |-> <<"_compile_command">> \o d.calls,
     exc |-> IF cmp.exc # "" THEN cmp.exc
             ELSE IF d.exc # "" THEN d.exc ELSE "NameError",
     msg |-> IF cmp.exc # "" THEN cmp.msg ELSE <<>>,
     printed |-> cmp.printed \o d.printed,
     value |-> None]

\* run(mfile) after its two steps, cmp the end of _compile_command and d
\* that of the dispatch.  An exception of either ends run(); when both
\* return, run() reads fnames_prefix, a name the module never defines
\* (the function is fnames_presuffix), and ends with NameError before any
\* Bunch is built.
RunSteps(cmp, d) ==
    IF cmp.exc # ""
    THEN [calls |-> <<"_compile_command">>, exc |-> cmp.exc, msg |-> cmp.msg,
          printed |-> cmp.printed, value |-> None]
    ELSE [calls |-> <<"_compile_command">> \o d.calls,
          exc |-> IF d.exc # "" THEN d.exc ELSE "NameError",
          msg |-> <<>>,
          printed |-> cmp.printed \o d.printed,
          value |-> None]

\* output = self.run(mfile)
Run ==
    /\ ret.op = "none"
    /\ \E mfile \in BOOLEAN, parsed \in ParseOutcomes(cls, inputs), env \in Environments :
          LET cmp == CompileStep(cls, inputs, shape, parsed)
              end == RunSteps(cmp, Dispatch(mfile, env))
          IN /\ ret' = [op |-> "run", mfile |-> mfile, before |-> inputs,
                        env |-> env, compiled |-> cmp.exc,
                        exc |-> end.exc, msg |-> end.msg, printed |-> end.printed,
                        calls |-> end.calls, value |-> end.value]
             /\ inputs' = WithFlags(inputs, cmp.flags)
    /\ UNCHANGED <<cls, shape, prefix, contents, fname>>

\* out = run_jobdef(job), called on its own
RunJobdef ==
    /\ ret.op = "none"
    /\ \E env \in Environments :
          ret' = [op |-> "run_jobdef", env |-> env] @@ run_jobdef(env)
    /\ UNCHANGED <<cls, inputs, shape, prefix, contents, fname>>

\* fnames_presuffix(self.inputs.infile, 'r') for a list of names,
\* fname_presuffix(self.inputs.infile, 'r') for one name
Presuffix ==
    /\ ret.op = "none"
    /\ inputs["infile"] # None
    /\ ret' = [op |-> "fnames_presuffix", before |-> inputs, exc |-> "",
               value |-> IF inputs["infile"].kind = "list"
                         THEN fnames_presuffix(inputs["infile"], <<"r">>, <<>>)
                         ELSE fname_presuffix(inputs["infile"], <<"r">>, <<>>, TRUE)]
    /\ UNCHANGED <<cls, inputs, shape, prefix, contents, fname>>

RunNext == SetInput \/ Run \/ RunJobdef \/ Presuffix \/ Discard

SpecRun == Init /\ [][RunNext]_vars

----------------------------------------------------------------------------
(* Claims about dispatch, under SpecRun *)

\* C12: whenever saving the job file or running the engine fails, run_jobdef
\* ends with an error; and when it ends without one, the job file was saved,
\* the engine ran, and what the engine printed is what is returned.
C12_FailureSurfaced ==
    ret.op = "run_jobdef" =>
        /\ (~ret.env.saved \/ ret.env.engine.exc # "") => ret.exc # ""
        /\ ret.exc = "" =>
              /\ ret.env.saved
              /\ ret.env.engine.exc = ""
              /\ ret.value = ret.env.engine.value

\* a run() whose job compiled and whose engine ran
RunDispatched ==
    /\ ret.op = "run"
    /\ ret.compiled = ""
    /\ ret.env.engine.exc = ""
    /\ ret.mfile \/ ret.env.saved

\* the output name the naming rule gives each drawn input name
Prefixed_r ==
    (PyString(<<"a", ".nii">>) :> PyString(<<"r", "a", ".nii">>))
        @@ (PyString(<<"d", "/", "b", ".nii">>) :> PyString(<<"d", "/", "r", "b", ".nii">>))

\* C13: every run() whose compilation and dispatch succeed returns one
\* Outcome holding the captured engine output, a status flag and the
\* expected output paths, each the input path with 'r' before its base name.
C13_RunReturnsOutcome ==
    RunDispatched =>
        /\ ret.exc = ""
        /\ ret.value.kind = "dict"
        /\ DictGet(ret.value, "stdout") = ret.env.engine.value
        /\ HasKey(ret.value, "returncode")
        /\ LET infile == ret.before["infile"]
               outfiles == DictGet(DictGet(ret.value, "outputs"), "outfiles")
           IN IF infile.kind = "list"
              THEN outfiles = PyList([i \in DOMAIN infile.val |-> Prefixed_r[infile.val[i]]])
              ELSE outfiles = Prefixed_r[infile]

----------------------------------------------------------------------------
(* Further claims about the option normalizers, under Spec *)

\* C14: _parseinputs and _compile_command leave the options of the instance
\* as they were: after the call every option, the mapping given as flags
\* and every mapping inside it included, has the keys and values it had
\* before the call.
C14_OptionSetUnchanged ==
    (Parsed \/ Compiled) =>
        /\ DOMAIN inputs = DOMAIN ret.before
        /\ \A k \in DOMAIN ret.before : Canon(inputs[k]) = Canon(ret.before[k])

\* C15: what _parseinputs returns, and so the job assembled from it,
\* depends on the present options and their values and not on the order in
\* which they are visited: any two visiting orders of the same options end
\* alike and return the same structure.
C15_OrderIndependent ==
    (Parsed \/ Compiled) =>
        \A a, b \in ParseOutcomes(cls, ret.before) :
           /\ a.exc = b.exc
           /\ a.exc = "" => Canon(a.einputs) = Canon(b.einputs)

\* how many times the 'not supported' diagnostic named option k
TimesPrinted(k) ==
    Cardinality({i \in DOMAIN ret.printed : ret.printed[i] = k})

\* C17: while _parseinputs normalizes, the 'option ... not supported'
\* diagnostic is printed for a present option exactly when the class does
\* not recognize its name: never for a recognized option, flags included,
\* and once for every unrecognized one.
C17_DiagnosticOnlyForUnrecognized ==
    (Parsed /\ ret.exc = "") =>
        /\ \A k \in Present(ret.before) :
              TimesPrinted(k) = IF k \in Recognized(cls) THEN 0 ELSE 1
        /\ \A i \in DOMAIN ret.printed : ret.printed[i] \in Present(ret.before)

\* C18: Realign._parseinputs puts the user's register_to_mean at
\* eoptions.rtm as it is: rtm is enabled when the user set True, and is
\* not enabled when the user set False.
C18_RtmFaithful ==
    (Parsed /\ cls = "Realign" /\ ret.exc = ""
        /\ "register_to_mean" \in Present(ret.before)
        /\ "flags" \notin Present(ret.before)) =>
        LET rtm == DictGet(DictGet(ret.valid, "eoptions"), "rtm")
        IN IF ret.before["register_to_mean"] = PyBool(TRUE)
           THEN rtm \in {PyInt(1), PyBool(TRUE)}
           ELSE rtm \in {PyInt(0), PyBool(FALSE)}

----------------------------------------------------------------------------
(* A further claim about dispatch, under SpecRun *)

\* the list options whose length _parseinputs tests, with the length
CheckedLength(c, k) ==
    CASE c = "Realign" /\ k \in {"wrap", "write_wrap"} -> 3
      [] c = "Realign" /\ k = "write_which" -> 2
      [] c \in {"Coregister", "Normalize"} /\ k = "write_wrap" -> 3
      [] OTHER -> 0

\* the present options that fail the length test of _parseinputs
FailsCheck(c, ins) ==
    {k \in Present(ins) : CheckedLength(c, k) > 0
                             /\ Len(ins[k].val) # CheckedLength(c, k)}

\* the positions in the calls of a run() at which the engine, or run_jobdef
\* and what it calls, was started
EngineCalls ==
    {i \in DOMAIN ret.calls :
        ret.calls[i] \in {"run_matlab_script", "run_jobdef", "savemat"}}

\* C16: in every run() the engine is started only after the job compiled:
\* when _parseinputs raises for a list of wrong length, or the frames of
\* infile cannot be enumerated, run() ends with that error, neither
\* run_matlab_script nor run_jobdef is called and nothing is returned.
C16_EngineAfterCompile ==
    ret.op = "run" =>
        LET wrong == FailsCheck(cls, ret.before)
            scans == SessScans(shape, ret.before["infile"])
        IN /\ wrong # {} =>
                 /\ ret.exc = "ValueError"
                 /\ ret.msg # <<>> /\ ret.msg[1] \in wrong
                 /\ EngineCalls = {}
                 /\ ret.value = None
           /\ (wrong = {} /\ scans.exc # "") =>
                 /\ ret.exc = scans.exc
                 /\ EngineCalls = {}
                 /\ ret.value = None
           /\ EngineCalls # {} =>
                 /\ wrong = {} /\ scans.exc = ""
                 /\ ret.calls[1] = "_compile_command"
                 /\ 1 \notin EngineCalls

\* Realign.run() with an infile that can be read and a wrap of 2 elements
\* ended with the validation error
C16_Witness ==
    /\ ret.op = "run"
    /\ cls = "Realign"
    /\ ret.before["infile"] = PyString(<<"a", ".nii">>)
    /\ "wrap" \in FailsCheck(cls, ret.before)
    /\ ret.exc = "ValueError"
    /\ ret.calls = <<"_compile_command">>

====
